---- MODULE Spec2Model ----
(***************************************************************************)
(* Device registry, content store and access broker of the content bot:    *)
(* services/device_service.py, services/content_service.py,                *)
(* services/subscription_service.py and the HTTP front end                 *)
(* api/device_api.py, over the tables of models/*.py.                      *)
(***************************************************************************)
EXTENDS Integers, Sequences, FiniteSets, TLC

(***************************************************************************)
(* Bounds of the model.                                                    *)
(***************************************************************************)
\* the clock (datetime.utcnow) takes the values 0..MaxTime
MaxTime == 1
\* rows the content_accesses table may hold
MaxEvents == 2
\* rows the contents table may hold (the first is the seeded sample row)
MaxContents == 2
\* rows the user_subscriptions table may hold
MaxSubs == 2

(***************************************************************************)
(* Inputs.                                                                 *)
(***************************************************************************)
\* the users table: two registered users; telegram id 999 has no row
users == << [id |-> 1, telegram_id |-> 101], [id |-> 2, telegram_id |-> 102] >>

TelegramIds == {101, 102, 999}

HardwareIds == {"h1", "h2"}

DeviceTypes == {"mobile", "laptop"}

\* the request body of /api/device/register: the attributes that vary
\* between the requests of the model; model, os_version, screen_resolution,
\* timezone and language are absent from every request (dict.get gives None)
DeviceInfos == [device_type : DeviceTypes, platform : {"android"}, hardware_id : HardwareIds]

\* user 101 sends every request, the other callers one each
RegisterInputs ==
    {<<t, i>> \in TelegramIds \X DeviceInfos :
        t # 101 => (i.hardware_id = "h1" /\ i.device_type = "mobile")}

\* the database sessions that may run register_device side by side
Sessions == {1, 2}

VARIABLES
    devices,      \* the devices table, in primary-key order (row id = index)
    contents,     \* the contents table, in primary-key order
    accesses,     \* the content_accesses table, in primary-key order
    subscriptions,\* the user_subscriptions table
    keyfiles,     \* the keys/ directory: set of <<key_id, content_key>>
    keygen,       \* number of device keypairs generated so far
    ckgen,        \* number of content keys generated so far
    now,          \* datetime.utcnow()
    ret,          \* what the last call returned to its caller
    issued,       \* history: private keys handed out, per <<user id, device_id>>
    revoked,      \* history: <<telegram id, device_id>> revoked and not registered since
    sessions,     \* the calls in progress, one database session each
    disk          \* the files encrypt_file and decrypt_file work on, by path

vars == <<devices, contents, accesses, subscriptions, keyfiles, keygen, ckgen,
          now, ret, issued, revoked, sessions, disk>>

(***************************************************************************)
(* Pure functions.                                                         *)
(***************************************************************************)
\* session.query(User).filter(User.telegram_id == telegram_id).first():
\* the id of the row, 0 for None
UserId(telegram_id) ==
    LET hit == {i \in DOMAIN users : users[i].telegram_id = telegram_id}
    IN  IF hit = {} THEN 0 ELSE users[CHOOSE i \in hit : \A j \in hit : i <= j].id

\* query(...).first(): the lowest row id of a set of rows, 0 for None
First(rows) == IF rows = {} THEN 0 ELSE CHOOSE i \in rows : \A j \in rows : i <= j

\* sha256 over json.dumps(fingerprint_data, sort_keys=True): the seven
\* attributes in sorted key order; device_type and device_name are no part
generate_device_fingerprint(device_info) ==
    << "sha256", device_info.hardware_id, "None", "None", "None",
       device_info.platform, "None", "None" >>

\* the device ids a caller may present
DeviceIds == {generate_device_fingerprint(i) : i \in DeviceInfos}

\* generate_device_keypair: the k-th keypair, as (private_pem, public_pem)
generate_device_keypair(k) == << <<"private", k>>, <<"public", k>> >>

None == <<>>

\* the value handed back to the caller of an operation
Ret(op, telegram_id, device_id, content_id, res, row, private_key, encrypted_key, http) ==
    [op |-> op, telegram_id |-> telegram_id, device_id |-> device_id,
     content_id |-> content_id, res |-> res, row |-> row,
     private_key |-> private_key, encrypted_key |-> encrypted_key, http |-> http,
     device_type |-> "", rows |-> {}, was_active |-> FALSE,
     content_key |-> None, unwrapped |-> None, body |-> <<>>, access_type |-> ""]

(***************************************************************************)
(* Device registry: DeviceService.                                         *)
(***************************************************************************)
\* register_device: the active rows of the user (existing_devices)
existing_devices(devs, user_id) ==
    {i \in DOMAIN devs : devs[i].user_id = user_id /\ devs[i].is_active}

\* a plausible slip: the limit is compared with > instead of >=
QuotaExceeded_off_by_one(devs, user_id, device_type) ==
    \/ /\ device_type = "mobile"
       /\ Cardinality({i \in DOMAIN devs : /\ devs[i].user_id = user_id
                                           /\ devs[i].is_active
                                           /\ devs[i].device_type = "mobile"}) > 1
    \/ /\ device_type = "laptop"
       /\ Cardinality({i \in DOMAIN devs : /\ devs[i].user_id = user_id
                                           /\ devs[i].is_active
                                           /\ devs[i].device_type = "laptop"}) > 1

\* a plausible slip: the limit counts the active devices of every class
QuotaExceeded_any_class(devs, user_id, device_type) ==
    \E i \in DOMAIN devs : devs[i].user_id = user_id /\ devs[i].is_active

\* a plausible slip: only the mobile limit is enforced
QuotaExceeded_mobile_only(devs, user_id, device_type) ==
    /\ device_type = "mobile"
    /\ \E i \in DOMAIN devs : /\ devs[i].user_id = user_id
                              /\ devs[i].is_active
                              /\ devs[i].device_type = "mobile"

\* register_device: the device limits, 1 mobile + 1 laptop
QuotaExceeded(devs, user_id, device_type) ==
    LET mobile_count == Cardinality({i \in existing_devices(devs, user_id) :
                                        devs[i].device_type = "mobile"})
        laptop_count == Cardinality({i \in existing_devices(devs, user_id) :
                                        devs[i].device_type = "laptop"})
    IN  \/ device_type = "mobile" /\ mobile_count >= 1
        \/ device_type = "laptop" /\ laptop_count >= 1

\* a plausible slip: the lookup carries the is_active filter of the other queries
existing_device_active_only(devs, user_id, fingerprint_hash) ==
    IF \E i \in DOMAIN devs : /\ devs[i].user_id = user_id
                              /\ devs[i].device_id = fingerprint_hash
                              /\ devs[i].is_active
    THEN CHOOSE i \in DOMAIN devs : /\ devs[i].user_id = user_id
                                   /\ devs[i].device_id = fingerprint_hash
                                   /\ devs[i].is_active
                                   /\ \A j \in DOMAIN devs :
                                         (/\ devs[j].user_id = user_id
                                          /\ devs[j].device_id = fingerprint_hash
                                          /\ devs[j].is_active) => i <= j
    ELSE 0

\* register_device: the row of the user with this fingerprint, active or not
existing_device(devs, user_id, fingerprint_hash) ==
    First({i \in DOMAIN devs : /\ devs[i].user_id = user_id
                               /\ devs[i].device_id = fingerprint_hash})

\* a plausible slip: the is_active filter is left out
ActiveDevice_ignoring_active(devs, user_id, device_id) ==
    IF \E i \in DOMAIN devs : devs[i].user_id = user_id /\ devs[i].device_id = device_id
    THEN CHOOSE i \in DOMAIN devs : /\ devs[i].user_id = user_id
                                   /\ devs[i].device_id = device_id
    ELSE 0

\* a plausible slip: the user_id filter is left out
ActiveDevice_any_user(devs, user_id, device_id) ==
    IF \E i \in DOMAIN devs : devs[i].device_id = device_id /\ devs[i].is_active
    THEN CHOOSE i \in DOMAIN devs : devs[i].device_id = device_id /\ devs[i].is_active
    ELSE 0

\* verify_device, get_content_for_device: the active row of the user with
\* this device id
ActiveDevice(devs, user_id, device_id) ==
    First({i \in DOMAIN devs : /\ devs[i].user_id = user_id
                               /\ devs[i].device_id = device_id
                               /\ devs[i].is_active})

\* a plausible slip: revoke looks the device id up among the rows of every user
OwnedDevice_any_user(devs, user_id, device_id) ==
    IF \E i \in DOMAIN devs : devs[i].device_id = device_id
    THEN CHOOSE i \in DOMAIN devs :
            /\ devs[i].device_id = device_id
            /\ \A j \in DOMAIN devs : devs[j].device_id = device_id => i <= j
    ELSE 0

\* a plausible slip: revoke looks only among the active rows
OwnedDevice_active_only(devs, user_id, device_id) ==
    IF \E i \in DOMAIN devs : /\ devs[i].user_id = user_id
                              /\ devs[i].device_id = device_id
                              /\ devs[i].is_active
    THEN CHOOSE i \in DOMAIN devs : /\ devs[i].user_id = user_id
                                   /\ devs[i].device_id = device_id
                                   /\ devs[i].is_active
    ELSE 0

\* revoke_device: the row of the user with this device id
OwnedDevice(devs, user_id, device_id) ==
    First({i \in DOMAIN devs : /\ devs[i].user_id = user_id
                               /\ devs[i].device_id = device_id})

\* POST /api/device/register: the status the endpoint answers with, given
\* what DeviceService.register_device did. A reactivation returns the Device
\* row itself, and result['device_id'] on it raises TypeError, which the
\* endpoint's "except Exception" turns into 500.
register_device_status(res) ==
    CASE res = "created" -> 200
      [] res = "reactivated" -> 500
      [] OTHER -> 400

\* POST /api/device/register with DeviceService.register_device
register_device(telegram_id, device_info) ==
    LET user_id == UserId(telegram_id)
        device_type == device_info.device_type
        fingerprint_hash == generate_device_fingerprint(device_info)
        existing == existing_device(devices, user_id, fingerprint_hash)
        pair == generate_device_keypair(keygen + 1)
        Answer(res, row, private_key) ==
            [Ret("register", telegram_id, fingerprint_hash, 0, res, row, private_key,
                 None, register_device_status(res)) EXCEPT !.device_type = device_type]
    IN  IF user_id = 0
        THEN /\ ret' = Answer("User not found", 0, None)
             /\ UNCHANGED <<devices, keygen, issued, revoked>>
        ELSE IF QuotaExceeded(devices, user_id, device_type)
        THEN /\ ret' = Answer("Maximum devices already registered", 0, None)
             /\ UNCHANGED <<devices, keygen, issued, revoked>>
        ELSE IF existing # 0
        THEN /\ devices' = [devices EXCEPT ![existing].is_active = TRUE,
                                           ![existing].last_seen = now]
             /\ ret' = Answer("reactivated", existing, None)
             /\ revoked' = revoked \ {<<telegram_id, fingerprint_hash>>}
             /\ UNCHANGED <<keygen, issued>>
        ELSE /\ keygen' = keygen + 1
             /\ devices' = Append(devices,
                    [user_id |-> user_id, device_id |-> fingerprint_hash,
                     device_type |-> device_type, platform |-> device_info.platform,
                     public_key |-> pair[2], is_active |-> TRUE,
                     last_seen |-> now])
             /\ ret' = Answer("created", Len(devices) + 1, pair[1])
             /\ issued' = [issued EXCEPT ![<<user_id, fingerprint_hash>>] = @ + 1]
             /\ revoked' = revoked \ {<<telegram_id, fingerprint_hash>>}

Register(telegram_id, device_info) ==
    /\ UNCHANGED disk
    /\ UNCHANGED sessions
    /\ register_device(telegram_id, device_info)
    /\ UNCHANGED <<contents, accesses, subscriptions, keyfiles, ckgen, now>>

\* DeviceService.verify_device
verify_device(telegram_id, device_id) ==
    LET user_id == UserId(telegram_id)
        device == ActiveDevice(devices, user_id, device_id)
    IN  IF user_id = 0
        THEN /\ ret' = Ret("verify", telegram_id, device_id, 0, "False", 0, None, None, 0)
             /\ UNCHANGED devices
        ELSE IF device # 0
        THEN /\ devices' = [devices EXCEPT ![device].last_seen = now]
             /\ ret' = Ret("verify", telegram_id, device_id, 0, "device", device, None, None, 0)
        ELSE /\ ret' = Ret("verify", telegram_id, device_id, 0, "None", 0, None, None, 0)
             /\ UNCHANGED devices

Verify(telegram_id, device_id) ==
    /\ UNCHANGED disk
    /\ UNCHANGED sessions
    /\ verify_device(telegram_id, device_id)
    /\ UNCHANGED <<contents, accesses, subscriptions, keyfiles, keygen, ckgen, now,
                   issued, revoked>>

\* a plausible slip: revoke deletes the row (session.delete) instead of
\* clearing its flag
revoke_device_deleting(telegram_id, device_id) ==
    LET user_id == UserId(telegram_id)
        device == IF \E i \in DOMAIN devices : /\ devices[i].user_id = user_id
                                               /\ devices[i].device_id = device_id
                  THEN CHOOSE i \in DOMAIN devices : /\ devices[i].user_id = user_id
                                                    /\ devices[i].device_id = device_id
                  ELSE 0
    IN  IF user_id = 0 \/ device = 0
        THEN /\ ret' = Ret("revoke", telegram_id, device_id, 0, "False", 0, None, None, 0)
             /\ UNCHANGED devices
        ELSE /\ devices' = [i \in 1..(Len(devices) - 1) |->
                               IF i < device THEN devices[i] ELSE devices[i + 1]]
             /\ ret' = [Ret("revoke", telegram_id, device_id, 0, "True", device, None,
                            None, 0)
                           EXCEPT !.was_active = devices[device].is_active]

\* DeviceService.revoke_device; was_active keeps what device.is_active was
\* before the assignment
revoke_device(telegram_id, device_id) ==
    LET user_id == UserId(telegram_id)
        device == OwnedDevice(devices, user_id, device_id)
    IN  IF user_id = 0
        THEN /\ ret' = Ret("revoke", telegram_id, device_id, 0, "False", 0, None, None, 0)
             /\ UNCHANGED devices
        ELSE IF device # 0
        THEN /\ devices' = [devices EXCEPT ![device].is_active = FALSE]
             /\ ret' = [Ret("revoke", telegram_id, device_id, 0, "True", device, None,
                            None, 0)
                           EXCEPT !.was_active = devices[device].is_active]
        ELSE /\ ret' = Ret("revoke", telegram_id, device_id, 0, "False", 0, None, None, 0)
             /\ UNCHANGED devices

Revoke(telegram_id, device_id) ==
    /\ UNCHANGED disk
    /\ UNCHANGED sessions
    /\ revoke_device(telegram_id, device_id)
    /\ revoked' = IF ret'.res = "True" THEN revoked \cup {<<telegram_id, device_id>>}
                  ELSE revoked
    /\ UNCHANGED <<contents, accesses, subscriptions, keyfiles, keygen, ckgen, now, issued>>

\* the clock moves on between two calls
Tick ==
    /\ UNCHANGED disk
    /\ UNCHANGED sessions
    /\ now < MaxTime
    /\ now' = now + 1
    /\ ret' = Ret("tick", 0, None, 0, "", 0, None, None, 0)
    /\ UNCHANGED <<devices, contents, accesses, subscriptions, keyfiles, keygen, ckgen,
                   issued, revoked>>

\* DeviceService.get_user_devices: the active rows of the user
get_user_devices(telegram_id) ==
    LET user_id == UserId(telegram_id)
        found == IF user_id = 0 THEN {} ELSE existing_devices(devices, user_id)
    IN  ret' = [Ret("list", telegram_id, None, 0, "list", 0, None, None, 0)
                   EXCEPT !.rows = found]

List(telegram_id) ==
    /\ UNCHANGED disk
    /\ UNCHANGED sessions
    /\ get_user_devices(telegram_id)
    /\ UNCHANGED <<devices, contents, accesses, subscriptions, keyfiles, keygen, ckgen,
                   now, issued, revoked>>

(***************************************************************************)
(* Subscriptions: SubscriptionService and the payment webhook.             *)
(***************************************************************************)
\* the subscription_plans table (database.py): Basic Monthly, 30 days, and
\* Weekly Trial, 7 days. The clock counts weeks: 30 days end in the 5th week.
plans == << [id |-> 1, duration |-> 5], [id |-> 5, duration |-> 1] >>

PlanIds == {5}

PaymentIds == {"tx1"}

\* SubscriptionService.get_active_subscription: the row, 0 for None
get_active_subscription(subs, telegram_id, utcnow) ==
    LET user_id == UserId(telegram_id)
    IN  IF user_id = 0 THEN 0
        ELSE First({i \in DOMAIN subs : /\ subs[i].user_id = user_id
                                        /\ subs[i].is_active
                                        /\ subs[i].end_date > utcnow})

\* session.query(SubscriptionPlan).get(plan_id): the row, 0 for None
Plan(plan_id) == First({i \in DOMAIN plans : plans[i].id = plan_id})

\* chapa_webhook_handler with status success: SubscriptionService.create_subscription
create_subscription(telegram_id, plan_id, payment_id) ==
    LET user_id == UserId(telegram_id)
        plan == Plan(plan_id)
    IN  IF user_id = 0 \/ plan = 0
        THEN /\ ret' = Ret("webhook", telegram_id, None, 0, "error", 0, None, None, 500)
             /\ UNCHANGED subscriptions
        ELSE /\ Len(subscriptions) < MaxSubs
             /\ subscriptions' = Append(subscriptions,
                    [user_id |-> user_id, plan_id |-> plans[plan].id,
                     start_date |-> now, end_date |-> now + plans[plan].duration,
                     is_active |-> TRUE, payment_id |-> payment_id,
                     payment_status |-> "completed"])
             /\ ret' = Ret("webhook", telegram_id, None, 0, "OK",
                           Len(subscriptions) + 1, None, None, 200)

Webhook(telegram_id, plan_id, payment_id) ==
    /\ UNCHANGED disk
    /\ UNCHANGED sessions
    /\ create_subscription(telegram_id, plan_id, payment_id)
    /\ UNCHANGED <<devices, contents, accesses, keyfiles, keygen, ckgen, now,
                   issued, revoked>>

\* SubscriptionService.cancel_subscription
cancel_subscription(subscription_id) ==
    IF subscription_id \in DOMAIN subscriptions
    THEN /\ subscriptions' = [subscriptions EXCEPT ![subscription_id].is_active = FALSE]
         /\ ret' = Ret("cancel", 0, None, 0, "True", subscription_id, None, None, 0)
    ELSE /\ ret' = Ret("cancel", 0, None, 0, "False", 0, None, None, 0)
         /\ UNCHANGED subscriptions

Cancel(subscription_id) ==
    /\ UNCHANGED disk
    /\ UNCHANGED sessions
    /\ cancel_subscription(subscription_id)
    /\ UNCHANGED <<devices, contents, accesses, keyfiles, keygen, ckgen, now,
                   issued, revoked>>

(***************************************************************************)
(* Content store and access broker: ContentService, EncryptionService.     *)
(***************************************************************************)
ContentTypes == {"pdf"}

\* upload_content: hashlib.sha256(content_key).hexdigest()[:16]
key_id(content_key) == <<"sha256_16", content_key>>

\* EncryptionService.generate_content_key: the n-th key drawn
generate_content_key(n) == <<"aes", n>>

\* os.path.exists(f"keys/{key_id}.key")
KeyFileExists(files, kid) == \E f \in files : f[1] = kid

\* the bytes read from keys/{key_id}.key
ReadKeyFile(files, kid) == (CHOOSE f \in files : f[1] = kid)[2]

\* a plausible slip: the content key is encoded and not encrypted
encrypt_key_for_device_unencrypted(content_key, device_public_key_pem) ==
    <<"b64", content_key>>

\* EncryptionService.encrypt_key_for_device: RSA-OAEP under the public key,
\* then base64
encrypt_key_for_device(content_key, device_public_key_pem) ==
    <<"b64", <<"oaep", content_key, device_public_key_pem>> >>

\* get_content_for_device: the active row with this id, 0 for None
ActiveContent(rows, content_id) ==
    First({i \in DOMAIN rows : i = content_id /\ rows[i].is_active})

\* ContentService.upload_content
upload_content(content_type, file_exists) ==
    LET content_key == generate_content_key(ckgen + 1)
    IN  IF ~file_exists
        THEN /\ ret' = Ret("upload", 0, None, 0, "File not found", 0, None, None, 0)
             /\ UNCHANGED <<contents, keyfiles, ckgen>>
        ELSE /\ Len(contents) < MaxContents
             /\ ckgen' = ckgen + 1
             /\ contents' = Append(contents,
                    [content_type |-> content_type,
                     encryption_key_id |-> key_id(content_key), is_active |-> TRUE])
             /\ keyfiles' = keyfiles \cup {<<key_id(content_key), content_key>>}
             /\ ret' = Ret("upload", 0, None, Len(contents) + 1, "content", 0,
                           None, None, 0)

Upload(content_type, file_exists) ==
    /\ UNCHANGED disk
    /\ UNCHANGED sessions
    /\ upload_content(content_type, file_exists)
    /\ UNCHANGED <<devices, accesses, subscriptions, keygen, now, issued, revoked>>

\* deactivate(content_id), the soft delete of a content row
deactivate(content_id) ==
    /\ content_id \in DOMAIN contents
    /\ contents[content_id].is_active
    /\ contents' = [contents EXCEPT ![content_id].is_active = FALSE]
    /\ ret' = Ret("deactivate", 0, None, content_id, "", 0, None, None, 0)

Deactivate(content_id) ==
    /\ UNCHANGED disk
    /\ UNCHANGED sessions
    /\ deactivate(content_id)
    /\ UNCHANGED <<devices, accesses, subscriptions, keyfiles, keygen, ckgen, now,
                   issued, revoked>>

\* a plausible slip: the access row is never added to the session
log_access_skipped(rows, user_id, content, device, utcnow) == rows

\* a plausible slip: the row of the user and the content is written over
\* when there is one (an upsert in the place of an insert)
log_access_upsert(rows, user_id, content, device, utcnow) ==
    LET row == [user_id |-> user_id, content_id |-> content, device_id |-> device,
                access_type |-> "download", access_date |-> utcnow]
        old == {e \in DOMAIN rows : rows[e].user_id = user_id /\ rows[e].content_id = content}
    IN  IF old = {} THEN Append(rows, row)
        ELSE [rows EXCEPT ![CHOOSE e \in old : TRUE] = row]

\* get_content_for_device, "Log access": the ContentAccess row is added and
\* committed
log_access(rows, user_id, content, device, utcnow) ==
    Append(rows, [user_id |-> user_id, content_id |-> content, device_id |-> device,
                  access_type |-> "download", access_date |-> utcnow])

\* ContentService.get_content_for_device; crypto_ok is whether the
\* cryptography library's load_pem_public_key and encrypt go through
get_content_for_device(telegram_id, content_id, device_id, crypto_ok) ==
    LET user_id == UserId(telegram_id)
        device == ActiveDevice(devices, user_id, device_id)
        content == ActiveContent(contents, content_id)
        kid == contents[content].encryption_key_id
        encrypted_key == encrypt_key_for_device(ReadKeyFile(keyfiles, kid),
                                                devices[device].public_key)
        Fail(res) == /\ ret' = Ret("grant", telegram_id, device_id, content_id, res, 0,
                                   None, None, 400)
                     /\ UNCHANGED accesses
    IN  IF user_id = 0 THEN Fail("User not found")
        ELSE IF device = 0 THEN Fail("Device not authorized")
        ELSE IF content = 0 THEN Fail("Content not found")
        ELSE IF ~KeyFileExists(keyfiles, kid) THEN Fail("Content key not found")
        ELSE IF ~crypto_ok THEN Fail("crypto error")
        ELSE /\ Len(accesses) < MaxEvents
             /\ accesses' = log_access(accesses, user_id, content, device, now)
             /\ ret' = Ret("grant", telegram_id, device_id, content_id, "granted",
                           device, None, encrypted_key, 200)

Grant(telegram_id, content_id, device_id, crypto_ok) ==
    /\ UNCHANGED disk
    /\ UNCHANGED sessions
    /\ get_content_for_device(telegram_id, content_id, device_id, crypto_ok)
    /\ UNCHANGED <<devices, contents, subscriptions, keyfiles, keygen, ckgen, now,
                   issued, revoked>>

(***************************************************************************)
(* The primitives of EncryptionService and the fingerprint of a request    *)
(* body, applied on their own.                                             *)
(***************************************************************************)
\* the files of the model: the source, its encrypted form, a decrypted copy
Paths == {"file", "file.encrypted", "out"}

\* what a source file may hold, in chunks of one bit
Plaintexts == {<<0>>, <<1>>, <<0, 1>>, <<1, 0>>}

\* secrets.token_bytes(12): the IVs that may be drawn
IVs == {0, 1}

\* the content keys and the device keypairs that have been generated
KeyNumbers == {1, 2}

\* AES in counter mode: the key stream bit for chunk i
keystream(content_key, iv, i) == (content_key[2] + iv + i) % 2

\* the GCM authentication tag over the encrypted chunks
gcm_tag(content_key, iv, encrypted_data) == <<"tag", content_key, iv, encrypted_data>>

\* encryptor.update / decryptor.update on one chunk
gcm_update(content_key, iv, i, chunk) == (chunk + keystream(content_key, iv, i)) % 2

\* EncryptionService.encrypt_file: what is written to f"{file_path}.encrypted",
\* the IV, the encrypted chunks, the tag
encrypt_file(data, content_key, iv) ==
    LET encrypted == [i \in 1..Len(data) |-> <<"ct", gcm_update(content_key, iv, i, data[i])>>]
    IN  <<(<<"iv", iv>>)>> \o encrypted \o <<gcm_tag(content_key, iv, encrypted)>>

\* EncryptionService.decrypt_file: the IV, the data and the tag are read,
\* the output of decryptor.update is written to output_path, and then
\* decryptor.finalize() checks the tag (InvalidTag when it does not verify)
decrypt_file(encrypted_path, content_key, output_path) ==
    LET f == disk[encrypted_path]
        iv == f[1][2]
        encrypted_data == SubSeq(f, 2, Len(f) - 1)
        tag == f[Len(f)]
        plain == [i \in 1..Len(encrypted_data) |->
                     gcm_update(content_key, iv, i, encrypted_data[i][2])]
    IN  /\ Len(f) >= 2
        /\ disk' = [disk EXCEPT ![output_path] = plain]
        /\ ret' = [Ret("decrypt_file", 0, None, 0,
                       IF tag = gcm_tag(content_key, iv, encrypted_data)
                       THEN "output_path" ELSE "InvalidTag",
                       0, None, None, 0)
                      EXCEPT !.content_key = content_key]

\* a plausible slip: the padding check that tells a foreign key is left out
decrypt_key_with_device_any_key(encrypted_key_b64, device_private_key_pem) ==
    encrypted_key_b64[2][2]

\* EncryptionService.decrypt_key_with_device: base64 decoded, then RSA-OAEP
\* under the private key; None stands for the ValueError that
\* private_key.decrypt raises on a ciphertext made under another public key
decrypt_key_with_device(encrypted_key_b64, device_private_key_pem) ==
    LET encrypted_key == encrypted_key_b64[2]
    IN  IF /\ encrypted_key[1] = "oaep"
           /\ encrypted_key[3] = <<"public", device_private_key_pem[2]>>
        THEN encrypted_key[2]
        ELSE None

\* the content key of number n is wrapped for the device of keypair k
WrapKey(n, k) ==
    /\ ret' = [Ret("encrypt_key", 0, None, 0, "encrypted_key", k, None,
                   encrypt_key_for_device(generate_content_key(n),
                                          generate_device_keypair(k)[2]), 0)
                  EXCEPT !.content_key = generate_content_key(n)]
    /\ UNCHANGED <<devices, contents, accesses, subscriptions, keyfiles, keygen, ckgen,
                   now, issued, revoked, sessions, disk>>

\* a device unwraps, with its private key, the wrapped key last made
UnwrapKey(j) ==
    LET content_key == decrypt_key_with_device(ret.encrypted_key,
                                               generate_device_keypair(j)[1])
    IN  /\ ret.op \in {"encrypt_key", "decrypt_key"}
        /\ ret' = [ret EXCEPT !.op = "decrypt_key",
                              !.private_key = generate_device_keypair(j)[1],
                              !.unwrapped = content_key,
                              !.res = IF content_key = None THEN "ValueError"
                                      ELSE "content_key"]
        /\ UNCHANGED <<devices, contents, accesses, subscriptions, keyfiles, keygen,
                       ckgen, now, issued, revoked, sessions, disk>>

\* the JSON bodies a client may send: the same attributes in any key order
RequestBodies ==
    LET items == {<<"device_type", "mobile">>, <<"platform", "android">>}
                    \cup {<<"hardware_id", h>> : h \in HardwareIds}
    IN  {b \in [1..3 -> items] : \A i, j \in 1..3 : i # j => b[i][1] # b[j][1]}

\* a plausible slip: the attributes are taken by their position in the body
request_json_positional(body) ==
    [device_type |-> body[1][2], platform |-> body[2][2], hardware_id |-> body[3][2]]

\* device_info = request.json: the dict of the body, looked up by key
request_json(body) ==
    [k \in {body[i][1] : i \in DOMAIN body} |->
        body[CHOOSE i \in DOMAIN body : body[i][1] = k][2]]

\* DeviceService.generate_device_fingerprint on the dict of a request body
Fingerprint(body) ==
    /\ ret' = [Ret("fingerprint", 0, generate_device_fingerprint(request_json(body)), 0,
                   "fingerprint_hash", 0, None, None, 0)
                  EXCEPT !.body = body]
    /\ UNCHANGED <<devices, contents, accesses, subscriptions, keyfiles, keygen, ckgen,
                   now, issued, revoked, sessions, disk>>

\* the admin puts a source file in place
PutFile(data) ==
    /\ disk' = [disk EXCEPT !["file"] = data]
    /\ ret' = Ret("put", 0, None, 0, "", 0, None, None, 0)
    /\ UNCHANGED <<devices, contents, accesses, subscriptions, keyfiles, keygen, ckgen,
                   now, issued, revoked, sessions>>

EncryptFile(n, iv) ==
    /\ disk["file"] # <<>>
    /\ disk' = [disk EXCEPT !["file.encrypted"] =
                    encrypt_file(disk["file"], generate_content_key(n), iv)]
    /\ ret' = [Ret("encrypt_file", 0, None, 0, "file.encrypted", 0, None, None, 0)
                  EXCEPT !.content_key = generate_content_key(n)]
    /\ UNCHANGED <<devices, contents, accesses, subscriptions, keyfiles, keygen, ckgen,
                   now, issued, revoked, sessions>>

\* the tag of the encrypted file has a bit flipped in the store or on the way
TamperTag ==
    LET f == disk["file.encrypted"]
        tag == f[Len(f)]
    IN  /\ f # <<>>
        /\ disk' = [disk EXCEPT !["file.encrypted"][Len(f)] =
                        IF Len(tag) = 4 THEN Append(tag, "flipped") ELSE SubSeq(tag, 1, 4)]
        /\ ret' = Ret("tamper", 0, None, 0, "", 0, None, None, 0)
        /\ UNCHANGED <<devices, contents, accesses, subscriptions, keyfiles, keygen,
                       ckgen, now, issued, revoked, sessions>>

\* the output location is cleared before the next decryption
RemoveOutput ==
    /\ disk["out"] # <<>>
    /\ disk' = [disk EXCEPT !["out"] = <<>>]
    /\ ret' = Ret("remove", 0, None, 0, "", 0, None, None, 0)
    /\ UNCHANGED <<devices, contents, accesses, subscriptions, keyfiles, keygen, ckgen,
                   now, issued, revoked, sessions>>

DecryptFile(n) ==
    /\ disk["file.encrypted"] # <<>>
    /\ decrypt_file("file.encrypted", generate_content_key(n), "out")
    /\ UNCHANGED <<devices, contents, accesses, subscriptions, keyfiles, keygen, ckgen,
                   now, issued, revoked, sessions>>

(***************************************************************************)
(* register_device as the database sees it: each call runs in a session of *)
(* its own and is cut at its queries and its commit.                       *)
(***************************************************************************)
Idle == [pc |-> "idle", telegram_id |-> 0, device_info |-> None, user_id |-> 0,
         existing_devices |-> <<>>, existing_device |-> 0, content_key |-> None,
         content |-> 0, device_id |-> None, encrypted_key |-> None,
         access_type |-> ""]

\* lines 65-73: the user row and the user's active devices are read
register_read(p, telegram_id, device_info) ==
    LET user_id == UserId(telegram_id)
    IN  /\ sessions[p].pc = "idle"
        /\ IF user_id = 0
           THEN /\ ret' = [Ret("register", telegram_id,
                               generate_device_fingerprint(device_info), 0,
                               "User not found", 0, None, None, 400)
                              EXCEPT !.device_type = device_info.device_type]
                /\ UNCHANGED sessions
           ELSE /\ sessions' = [sessions EXCEPT ![p] =
                       [pc |-> "read", telegram_id |-> telegram_id,
                        device_info |-> device_info, user_id |-> user_id,
                        existing_devices |-> devices, existing_device |-> 0,
                        content_key |-> None, content |-> 0, device_id |-> None,
                        encrypted_key |-> None, access_type |-> ""]]
                /\ UNCHANGED ret
        /\ UNCHANGED <<devices, keygen, issued, revoked>>

\* lines 75-93: the limits are checked on the rows read, then the row of
\* this fingerprint is read
register_check(p) ==
    LET s == sessions[p]
        fingerprint_hash == generate_device_fingerprint(s.device_info)
    IN  /\ s.pc = "read"
        /\ IF QuotaExceeded(s.existing_devices, s.user_id, s.device_info.device_type)
           THEN /\ ret' = [Ret("register", s.telegram_id, fingerprint_hash, 0,
                               "Maximum devices already registered", 0, None, None, 400)
                              EXCEPT !.device_type = s.device_info.device_type]
                /\ sessions' = [sessions EXCEPT ![p] = Idle]
           ELSE /\ sessions' = [sessions EXCEPT ![p].pc = "checked",
                                  ![p].existing_device =
                                      existing_device(devices, s.user_id, fingerprint_hash)]
                /\ UNCHANGED ret
        /\ UNCHANGED <<devices, keygen, issued, revoked>>

\* lines 95-127: the row read is set active, or a new row is added, and the
\* session commits
register_commit(p) ==
    LET s == sessions[p]
        fingerprint_hash == generate_device_fingerprint(s.device_info)
        pair == generate_device_keypair(keygen + 1)
        Answer(res, row, private_key) ==
            [Ret("register", s.telegram_id, fingerprint_hash, 0, res, row, private_key,
                 None, register_device_status(res))
               EXCEPT !.device_type = s.device_info.device_type]
    IN  /\ s.pc = "checked"
        /\ sessions' = [sessions EXCEPT ![p] = Idle]
        /\ revoked' = revoked \ {<<s.telegram_id, fingerprint_hash>>}
        /\ IF s.existing_device # 0
           THEN /\ devices' = [devices EXCEPT ![s.existing_device].is_active = TRUE,
                                              ![s.existing_device].last_seen = now]
                /\ ret' = Answer("reactivated", s.existing_device, None)
                /\ UNCHANGED <<keygen, issued>>
           ELSE /\ keygen' = keygen + 1
                /\ devices' = Append(devices,
                       [user_id |-> s.user_id, device_id |-> fingerprint_hash,
                        device_type |-> s.device_info.device_type,
                        platform |-> s.device_info.platform,
                        public_key |-> pair[2], is_active |-> TRUE,
                        last_seen |-> now])
                /\ ret' = Answer("created", Len(devices) + 1, pair[1])
                /\ issued' = [issued EXCEPT ![<<s.user_id, fingerprint_hash>>] = @ + 1]

RegisterRead(p, telegram_id, device_info) ==
    /\ UNCHANGED disk
    /\ register_read(p, telegram_id, device_info)
    /\ UNCHANGED <<contents, accesses, subscriptions, keyfiles, ckgen, now>>

RegisterCheck(p) ==
    /\ UNCHANGED disk
    /\ register_check(p)
    /\ UNCHANGED <<contents, accesses, subscriptions, keyfiles, ckgen, now>>

RegisterCommit(p) ==
    /\ UNCHANGED disk
    /\ register_commit(p)
    /\ UNCHANGED <<contents, accesses, subscriptions, keyfiles, ckgen, now>>

(***************************************************************************)
(* upload_content as the database and the keys/ directory see it: the call *)
(* is cut between the commit of the content row and the write of the key   *)
(* file.                                                                   *)
(***************************************************************************)
\* lines 19-43: the file is checked, the key drawn, the file encrypted, the
\* content row added and committed; the key is held by the call
upload_commit(p, content_type, file_exists) ==
    LET content_key == generate_content_key(ckgen + 1)
    IN  /\ sessions[p].pc = "idle"
        /\ IF ~file_exists
           THEN /\ ret' = Ret("upload", 0, None, 0, "File not found", 0, None, None, 0)
                /\ UNCHANGED <<contents, ckgen, sessions>>
           ELSE /\ Len(contents) < MaxContents
                /\ ckgen' = ckgen + 1
                /\ contents' = Append(contents,
                       [content_type |-> content_type,
                        encryption_key_id |-> key_id(content_key), is_active |-> TRUE])
                /\ sessions' = [sessions EXCEPT ![p] =
                       [Idle EXCEPT !.pc = "committed", !.content_key = content_key]]
                /\ UNCHANGED ret
        /\ UNCHANGED keyfiles

\* lines 45-52: keys/ is made and the key written to keys/{key_id}.key;
\* written is whether os.makedirs, open and write go through (OSError
\* otherwise, which upload_content lets out)
upload_store_key(p, written) ==
    LET content_key == sessions[p].content_key
        content == CHOOSE c \in DOMAIN contents :
                      contents[c].encryption_key_id = key_id(content_key)
    IN  /\ sessions[p].pc = "committed"
        /\ sessions' = [sessions EXCEPT ![p] = Idle]
        /\ IF written
           THEN /\ keyfiles' = keyfiles \cup {<<key_id(content_key), content_key>>}
                /\ ret' = Ret("upload", 0, None, content, "content", 0, None, None, 0)
           ELSE /\ ret' = Ret("upload", 0, None, content, "OSError", 0, None, None, 0)
                /\ UNCHANGED keyfiles
        /\ UNCHANGED <<contents, ckgen>>

UploadCommit(p, content_type, file_exists) ==
    /\ UNCHANGED disk
    /\ upload_commit(p, content_type, file_exists)
    /\ UNCHANGED <<devices, accesses, subscriptions, keygen, now, issued, revoked>>

UploadStoreKey(p, written) ==
    /\ UNCHANGED disk
    /\ upload_store_key(p, written)
    /\ UNCHANGED <<devices, accesses, subscriptions, keygen, now, issued, revoked>>

(***************************************************************************)
(* get_content_for_device as the database sees it: the call is cut between *)
(* its queries and the commit of the access row. access_type is the kind   *)
(* of access the caller is after; the call has no parameter for it.        *)
(***************************************************************************)
AccessTypes == {"download", "stream", "view"}

\* lines 59-91: the user, the device and the content are read, the key
\* file is read and the key wrapped (the library calls going through)
grant_read(p, access_type, telegram_id, content_id, device_id) ==
    LET user_id == UserId(telegram_id)
        device == ActiveDevice(devices, user_id, device_id)
        content == ActiveContent(contents, content_id)
        kid == contents[content].encryption_key_id
        encrypted_key == encrypt_key_for_device(ReadKeyFile(keyfiles, kid),
                                                devices[device].public_key)
        Fail(res) == /\ ret' = [Ret("grant", telegram_id, device_id, content_id, res, 0,
                                    None, None, 400)
                                   EXCEPT !.access_type = access_type]
                     /\ UNCHANGED sessions
    IN  /\ sessions[p].pc = "idle"
        /\ IF user_id = 0 THEN Fail("User not found")
           ELSE IF device = 0 THEN Fail("Device not authorized")
           ELSE IF content = 0 THEN Fail("Content not found")
           ELSE IF ~KeyFileExists(keyfiles, kid) THEN Fail("Content key not found")
           ELSE /\ sessions' = [sessions EXCEPT ![p] =
                       [Idle EXCEPT !.pc = "wrapped", !.telegram_id = telegram_id,
                                    !.device_id = device_id, !.user_id = user_id,
                                    !.existing_device = device, !.content = content,
                                    !.encrypted_key = encrypted_key,
                                    !.access_type = access_type]]
                /\ UNCHANGED ret
        /\ UNCHANGED accesses

\* lines 93-107: the access row is added and committed, and the wrapped key
\* returned
grant_commit(p) ==
    LET s == sessions[p]
    IN  /\ s.pc = "wrapped"
        /\ Len(accesses) < MaxEvents
        /\ sessions' = [sessions EXCEPT ![p] = Idle]
        /\ accesses' = log_access(accesses, s.user_id, s.content, s.existing_device, now)
        /\ ret' = [Ret("grant", s.telegram_id, s.device_id, s.content, "granted",
                       s.existing_device, None, s.encrypted_key, 200)
                      EXCEPT !.access_type = s.access_type]

GrantRead(p, access_type, telegram_id, content_id, device_id) ==
    /\ grant_read(p, access_type, telegram_id, content_id, device_id)
    /\ UNCHANGED <<devices, contents, subscriptions, keyfiles, keygen, ckgen, now,
                   issued, revoked, disk>>

GrantCommit(p) ==
    /\ grant_commit(p)
    /\ UNCHANGED <<devices, contents, subscriptions, keyfiles, keygen, ckgen, now,
                   issued, revoked, disk>>

(***************************************************************************)
(* upload_content with the file it encrypts: encrypt_file opens            *)
(* f"{file_path}.encrypted" for writing, writes the IV, then one encrypted *)
(* chunk per chunk read, then the tag.  A read or a cipher error leaves    *)
(* the function at that point; no handler removes what was written.        *)
(***************************************************************************)
\* completes: encrypt_file runs through; otherwise it raises after chunks
\* encrypted chunks were written
upload_file(content_type, iv, completes, chunks) ==
    LET data == disk["file"]
        content_key == generate_content_key(ckgen + 1)
        encrypted == encrypt_file(data, content_key, iv)
    IN  IF data = <<>>
        THEN /\ ret' = Ret("upload", 0, None, 0, "File not found", 0, None, None, 0)
             /\ UNCHANGED <<contents, keyfiles, ckgen, disk>>
        ELSE IF ~completes
        THEN /\ chunks <= Len(data)
             /\ ckgen < MaxContents
             /\ ckgen' = ckgen + 1
             /\ disk' = [disk EXCEPT !["file.encrypted"] = SubSeq(encrypted, 1, 1 + chunks)]
             /\ ret' = Ret("upload", 0, None, 0, "IOError", 0, None, None, 0)
             /\ UNCHANGED <<contents, keyfiles>>
        ELSE /\ Len(contents) < MaxContents
             /\ ckgen < MaxContents
             /\ ckgen' = ckgen + 1
             /\ disk' = [disk EXCEPT !["file.encrypted"] = encrypted]
             /\ contents' = Append(contents,
                    [content_type |-> content_type,
                     encryption_key_id |-> key_id(content_key), is_active |-> TRUE])
             /\ keyfiles' = keyfiles \cup {<<key_id(content_key), content_key>>}
             /\ ret' = Ret("upload", 0, None, Len(contents) + 1, "content", 0,
                           None, None, 0)

UploadFile(content_type, iv, completes, chunks) ==
    /\ upload_file(content_type, iv, completes, chunks)
    /\ UNCHANGED <<devices, accesses, subscriptions, keygen, now, issued, revoked,
                   sessions>>

(***************************************************************************)
(* The file and stream endpoints of api/device_api.py.  Neither takes a    *)
(* token: the device is looked up by its device_id among the active rows   *)
(* of every user.                                                          *)
(***************************************************************************)
\* the content types of the uploads that are served or streamed
DeliveryTypes == ContentTypes \cup {"video"}

\* query(Device).filter(device_id == ..., is_active == True).first()
AnyActiveDevice(devs, device_id) ==
    First({i \in DOMAIN devs : devs[i].device_id = device_id /\ devs[i].is_active})

\* GET /api/content/<content_id>/file; file_exists is os.path.exists(file_path)
serve_encrypted_file(content_id, device_id, file_exists) ==
    LET device == AnyActiveDevice(devices, device_id)
        Answer(res, http) == Ret("file", 0, device_id, content_id, res, device, None, None, http)
    IN  IF device = 0
        THEN ret' = Answer("Device not authorized", 403)
        ELSE IF content_id \notin DOMAIN contents \/ ~contents[content_id].is_active
        THEN ret' = Answer("Content not found", 404)
        ELSE IF file_exists
        THEN ret' = Answer("send_file", 200)
        ELSE ret' = Answer("File not found", 404)

\* GET /api/content/<content_id>/stream
stream_content(content_id, device_id) ==
    LET device == AnyActiveDevice(devices, device_id)
        Answer(res, http) == Ret("stream", 0, device_id, content_id, res, device, None, None, http)
    IN  IF device = 0
        THEN ret' = Answer("Device not authorized", 403)
        ELSE IF content_id \notin DOMAIN contents \/ contents[content_id].content_type # "video"
        THEN ret' = Answer("Video not found", 404)
        ELSE ret' = Answer("stream_url", 200)

ServeFile(content_id, device_id, file_exists) ==
    /\ serve_encrypted_file(content_id, device_id, file_exists)
    /\ UNCHANGED <<devices, contents, accesses, subscriptions, keyfiles, keygen, ckgen,
                   now, issued, revoked, sessions, disk>>

Stream(content_id, device_id) ==
    /\ stream_content(content_id, device_id)
    /\ UNCHANGED <<devices, contents, accesses, subscriptions, keyfiles, keygen, ckgen,
                   now, issued, revoked, sessions, disk>>

(***************************************************************************)
(* The system: calls arrive one at a time.                                 *)
(***************************************************************************)
\* database.py, init_database: the seeded tables. Of the sample contents
\* one row stands for all: its encryption_key_id names no file under keys/.
Init ==
    /\ devices = <<>>
    /\ contents = << [content_type |-> "pdf", encryption_key_id |-> <<"key_004">>,
                      is_active |-> TRUE] >>
    /\ accesses = <<>>
    /\ subscriptions = <<>>
    /\ keyfiles = {}
    /\ keygen = 0
    /\ ckgen = 0
    /\ now = 0
    /\ ret = Ret("init", 0, None, 0, "", 0, None, None, 0)
    /\ issued = [p \in {users[i].id : i \in DOMAIN users} \X DeviceIds |-> 0]
    /\ revoked = {}
    /\ sessions = [p \in Sessions |-> Idle]
    /\ disk = [path \in Paths |-> <<>>]

ContentIds == 1..MaxContents

\* the registry on its own: /api/device/register, verify, revoke, list
Next ==
    \/ \E in \in RegisterInputs : Register(in[1], in[2])
    \/ \E t \in TelegramIds, d \in DeviceIds : Verify(t, d)
    \/ \E t \in TelegramIds, d \in DeviceIds : Revoke(t, d)
    \/ \E t \in TelegramIds : List(t)
    \/ Tick

Spec == Init /\ [][Next]_vars

\* the requests that register a device in the broker's runs: one device for
\* each user; the second device id stays unknown to the registry
BrokerRegisterInputs ==
    {in \in RegisterInputs : /\ in[1] # 999
                             /\ in[2].hardware_id = "h1"
                             /\ in[2].device_type = "mobile"}

\* the caller of verify and revoke in the broker's runs
BrokerCallers == {101}

\* the access broker with the registry and the content store
BrokerNext ==
    \/ \E in \in BrokerRegisterInputs : Register(in[1], in[2])
    \/ \E t \in BrokerCallers, d \in DeviceIds : Verify(t, d)
    \/ \E t \in BrokerCallers, d \in DeviceIds : Revoke(t, d)
    \/ \E t \in TelegramIds, c \in ContentIds, d \in DeviceIds, ok \in BOOLEAN :
          Grant(t, c, d, ok)
    \/ \E ty \in ContentTypes, e \in BOOLEAN : Upload(ty, e)
    \/ \E c \in ContentIds : Deactivate(c)

SpecBroker == Init /\ [][BrokerNext]_vars

\* the requests of one subscriber, with the payment webhook and the clock
\* that lets a subscription run out
EntitlementNext ==
    \/ \E in \in BrokerRegisterInputs : in[1] = 101 /\ Register(in[1], in[2])
    \/ \E d \in DeviceIds : Revoke(101, d)
    \/ \E c \in ContentIds, d \in DeviceIds : Grant(101, c, d, TRUE)
    \/ \E ty \in ContentTypes : Upload(ty, TRUE)
    \/ \E t \in TelegramIds, p \in PlanIds, pay \in PaymentIds : Webhook(t, p, pay)
    \/ \E s \in 1..MaxSubs : Cancel(s)
    \/ Tick

SpecEntitlement == Init /\ [][EntitlementNext]_vars

\* what the sessions ask for in the runs with overlapping calls: a mobile
\* device for user 101, on either hardware
RaceInfos == {i \in DeviceInfos : i.device_type = "mobile"}

\* register calls of one user overlapping, with revoke and the clock
RaceNext ==
    \/ \E p \in Sessions, i \in RaceInfos : RegisterRead(p, 101, i)
    \/ \E p \in Sessions : RegisterCheck(p)
    \/ \E p \in Sessions : RegisterCommit(p)
    \/ \E d \in DeviceIds : Revoke(101, d)
    \/ Tick

SpecRace == Init /\ [][RaceNext]_vars

\* uploads cut at the commit of the row, with the grants of one user's device
IngestNext ==
    \/ \E p \in Sessions, ty \in ContentTypes, e \in BOOLEAN : UploadCommit(p, ty, e)
    \/ \E p \in Sessions, w \in BOOLEAN : UploadStoreKey(p, w)
    \/ \E in \in BrokerRegisterInputs : in[1] = 101 /\ Register(in[1], in[2])
    \/ \E c \in ContentIds, d \in DeviceIds : Grant(101, c, d, TRUE)
    \/ \E c \in ContentIds : Deactivate(c)

SpecIngest == Init /\ [][IngestNext]_vars

\* the primitives of the vault applied to files and keys
VaultNext ==
    \/ \E data \in Plaintexts : PutFile(data)
    \/ \E n \in KeyNumbers, iv \in IVs : EncryptFile(n, iv)
    \/ TamperTag
    \/ RemoveOutput
    \/ \E n \in KeyNumbers : DecryptFile(n)
    \/ \E n \in KeyNumbers, k \in KeyNumbers : WrapKey(n, k)
    \/ \E j \in KeyNumbers : UnwrapKey(j)
    \/ \E body \in RequestBodies : Fingerprint(body)

SpecVault == Init /\ [][VaultNext]_vars

\* the devices asked for in the runs that fill the access log: the first
\* hardware, as a mobile device
AuditDeviceIds == {generate_device_fingerprint(in[2]) : in \in BrokerRegisterInputs}

\* the calls of two users on the registry, the content store and the
\* broker, with the clock: the operations that run while the access log fills
AuditNext ==
    \/ \E in \in BrokerRegisterInputs : Register(in[1], in[2])
    \/ \E d \in AuditDeviceIds : Verify(101, d)
    \/ \E d \in AuditDeviceIds : Revoke(101, d)
    \/ List(101)
    \/ \E ty \in ContentTypes, e \in BOOLEAN : Upload(ty, e)
    \/ \E in \in BrokerRegisterInputs, c \in ContentIds, d \in AuditDeviceIds :
          Grant(in[1], c, d, TRUE)
    \/ Tick

SpecAudit == Init /\ [][AuditNext]_vars

\* one user's calls in the runs of the end-to-end scenario: every device a
\* client may ask for, uploads that succeed, grants and revokes
ScenarioNext ==
    \/ \E i \in DeviceInfos : Register(101, i)
    \/ \E d \in DeviceIds : Revoke(101, d)
    \/ \E ty \in ContentTypes : Upload(ty, TRUE)
    \/ \E c \in ContentIds, d \in DeviceIds : Grant(101, c, d, TRUE)

SpecScenario == Init /\ [][ScenarioNext]_vars

\* grants cut at the commit of the access row, with revoke in between
GrantRaceNext ==
    \/ \E in \in BrokerRegisterInputs : in[1] = 101 /\ Register(in[1], in[2])
    \/ \E ty \in ContentTypes : Upload(ty, TRUE)
    \/ \E p \in Sessions, k \in AccessTypes, c \in ContentIds, d \in DeviceIds :
          GrantRead(p, k, 101, c, d)
    \/ \E p \in Sessions : GrantCommit(p)
    \/ \E d \in AuditDeviceIds : Revoke(101, d)
    \/ Tick

SpecGrantRace == Init /\ [][GrantRaceNext]_vars

\* the device_type a request body may carry: the endpoint asks only that the
\* field is present, so any string arrives at register_device
RequestedTypes == DeviceTypes \cup {"tablet"}

ClassInfos == [device_type : RequestedTypes, platform : {"android"}, hardware_id : HardwareIds]

\* one user's registrations with every class a body may name, and revokes
ClassesNext ==
    \/ \E i \in ClassInfos : Register(101, i)
    \/ \E d \in DeviceIds : Revoke(101, d)
    \/ Tick

SpecClasses == Init /\ [][ClassesNext]_vars

\* uploads of the files the admin puts in place, encrypt_file going through
\* or failing after any number of chunks
BulkNext ==
    \/ \E data \in Plaintexts : PutFile(data)
    \/ \E ty \in ContentTypes, iv \in IVs, completes \in BOOLEAN, chunks \in {0, 1, 2} :
          UploadFile(ty, iv, completes, chunks)

SpecBulk == Init /\ [][BulkNext]_vars

\* the three delivery paths over uploads of every type, with the soft delete
DeliveryNext ==
    \/ \E in \in BrokerRegisterInputs : in[1] = 101 /\ Register(in[1], in[2])
    \/ \E ty \in DeliveryTypes : Upload(ty, TRUE)
    \/ \E c \in ContentIds : Deactivate(c)
    \/ \E c \in ContentIds, d \in DeviceIds : Grant(101, c, d, TRUE)
    \/ \E c \in ContentIds, d \in DeviceIds, e \in BOOLEAN : ServeFile(c, d, e)
    \/ \E c \in ContentIds, d \in DeviceIds : Stream(c, d)

SpecDelivery == Init /\ [][DeliveryNext]_vars

\* the registers of the two users and every caller's revokes, beside uploads
\* and the first user's grants: the tables a revoke could touch are all filled
FrameNext ==
    \/ \E in \in RegisterInputs : in[1] # 999 /\ Register(in[1], in[2])
    \/ \E t \in TelegramIds, d \in DeviceIds : Revoke(t, d)
    \/ \E ty \in ContentTypes : Upload(ty, TRUE)
    \/ \E c \in ContentIds, d \in AuditDeviceIds : Grant(101, c, d, TRUE)

SpecFrame == Init /\ [][FrameNext]_vars

(***************************************************************************)
(* Properties.                                                             *)
(***************************************************************************)
UserIds == {users[i].id : i \in DOMAIN users}

QuotaClasses == {"mobile", "laptop"}

\* the rows of a user that are active and of a class
ActiveOfClass(user_id, class) ==
    {i \in DOMAIN devices : /\ devices[i].user_id = user_id
                            /\ devices[i].is_active
                            /\ devices[i].device_type = class}

\* the rows recorded for a user and a device id
Records(user_id, device_id) ==
    {i \in DOMAIN devices : /\ devices[i].user_id = user_id
                            /\ devices[i].device_id = device_id}

\* C1: after any sequence of register, revoke and verify calls every user
\* has at most one active mobile device and at most one active laptop.
C1_OneActivePerClass ==
    \A u \in UserIds, class \in QuotaClasses :
        Cardinality(ActiveOfClass(u, class)) <= 1

\* C2: when register calls of one user for one class and different
\* fingerprints overlap between their reads and their commits, the user
\* never holds two active devices of that class.
C2_QuotaUnderOverlap ==
    \A i, j \in DOMAIN devices :
        (/\ devices[i].user_id = devices[j].user_id
         /\ devices[i].device_type = devices[j].device_type
         /\ devices[i].device_type \in QuotaClasses
         /\ devices[i].is_active
         /\ devices[j].is_active) => devices[i].device_id = devices[j].device_id

\* C3: once revoke(U, D) has revoked D, and until a register of D's
\* fingerprint for U succeeds, every verify(U, D) answers not-authorized
\* and every grant for (U, D) fails "Device not authorized" with no key.
C3_RevocationEffect ==
    (/\ ret.op \in {"verify", "grant"}
     /\ <<ret.telegram_id, ret.device_id>> \in revoked)
    => /\ ret.op = "verify" => ret.res = "None" /\ ret.row = 0
       /\ ret.op = "grant" => /\ ret.res = "Device not authorized"
                              /\ ret.encrypted_key = None

\* a grant is refused for a revoked device that was served before, though
\* the content is there with its key
C3_Witness ==
    /\ ret.op = "grant"
    /\ <<ret.telegram_id, ret.device_id>> \in revoked
    /\ ret.res = "Device not authorized"
    /\ \E e \in DOMAIN accesses :
          /\ accesses[e].device_id \in Records(UserId(ret.telegram_id), ret.device_id)
          /\ accesses[e].content_id = ret.content_id
    /\ ret.content_id \in DOMAIN contents
    /\ contents[ret.content_id].is_active

\* C4: a grant that returns a wrapped key appends exactly one access row,
\* for that user, content and device; a grant that fails leaves the access
\* rows as they were.
C4_AuditCompleteness ==
    [][ret'.op = "grant" =>
          IF ret'.encrypted_key # None
          THEN /\ Len(accesses') = Len(accesses) + 1
               /\ SubSeq(accesses', 1, Len(accesses)) = accesses
               /\ LET e == accesses'[Len(accesses')]
                  IN  /\ e.user_id = UserId(ret'.telegram_id)
                      /\ e.content_id = ret'.content_id
                      /\ e.device_id \in DOMAIN devices
                      /\ devices[e.device_id].device_id = ret'.device_id
                      /\ devices[e.device_id].user_id = e.user_id
          ELSE /\ accesses' = accesses
               /\ ret'.res \in {"User not found", "Device not authorized",
                                "Content not found", "Content key not found",
                                "crypto error"}]_vars

\* a second key has been handed out and the log holds two rows
C4_Witness ==
    /\ ret.op = "grant"
    /\ ret.encrypted_key # None
    /\ Len(accesses) = 2

\* C5: a grant for a user without an active subscription returns no key and
\* fails EntitlementRequired.
C5_EntitlementRequired ==
    (/\ ret.op = "grant"
     /\ \A i \in DOMAIN subscriptions :
           ~(/\ subscriptions[i].user_id = UserId(ret.telegram_id)
             /\ subscriptions[i].is_active
             /\ subscriptions[i].end_date > now))
    => /\ ret.encrypted_key = None
       /\ ret.res # "granted"

\* C6: a private key is returned at most once per (user, fingerprint): a
\* register that returns one creates the record, and a register of a
\* fingerprint already recorded returns none and generates no keypair.
C6_PrivateKeyOnce ==
    [][/\ \A p \in DOMAIN issued : issued'[p] <= 1
       /\ ret'.op = "register" =>
             LET u == UserId(ret'.telegram_id)
             IN  /\ Records(u, ret'.device_id) # {} =>
                       ret'.private_key = None /\ keygen' = keygen
                 /\ ret'.private_key # None =>
                       /\ Records(u, ret'.device_id) = {}
                       /\ keygen' = keygen + 1
                       /\ Len(devices') = Len(devices) + 1
                       /\ devices'[Len(devices')].user_id = u
                       /\ devices'[Len(devices')].device_id = ret'.device_id]_vars

\* a revoked device has registered again and got no second key
C6_Witness ==
    /\ ret.op = "register"
    /\ ret.res = "reactivated"
    /\ ret.private_key = None
    /\ issued[<<UserId(ret.telegram_id), ret.device_id>>] = 1
    /\ keygen = Len(devices)

\* C7: register of a fingerprint new to the user, with an active device of
\* the class already there, fails with the quota error and changes nothing.
C7_QuotaExceededNoChange ==
    [][(/\ ret'.op = "register"
        /\ UserId(ret'.telegram_id) # 0
        /\ ret'.device_type \in QuotaClasses
        /\ Records(UserId(ret'.telegram_id), ret'.device_id) = {}
        /\ ActiveOfClass(UserId(ret'.telegram_id), ret'.device_type) # {})
       => /\ ret'.res = "Maximum devices already registered"
          /\ ret'.private_key = None
          /\ UNCHANGED <<devices, contents, accesses, subscriptions, keyfiles,
                         keygen, ckgen, issued>>]_vars

\* a second mobile device was refused after the clock had moved on
C7_Witness ==
    /\ ret.op = "register"
    /\ ret.res = "Maximum devices already registered"
    /\ Records(UserId(ret.telegram_id), ret.device_id) = {}
    /\ ActiveOfClass(UserId(ret.telegram_id), ret.device_type) # {}
    /\ now > 0

\* C8: in every reachable state there is at most one row per (user,
\* device id), register calls that overlap included.
C8_OneRecordPerFingerprint ==
    \A u \in UserIds, d \in DeviceIds : Cardinality(Records(u, d)) <= 1

\* C9: register of a fingerprint recorded for the user, with no other
\* device of the class active, succeeds, leaves the device active and is
\* answered with success by the register endpoint.
C9_ReRegisterSucceeds ==
    [][(/\ ret'.op = "register"
        /\ Records(UserId(ret'.telegram_id), ret'.device_id) # {}
        /\ \A i \in ActiveOfClass(UserId(ret'.telegram_id), ret'.device_type) :
              i \in Records(UserId(ret'.telegram_id), ret'.device_id))
       => /\ ret'.res = "reactivated"
          /\ ret'.http = 200
          /\ \A i \in Records(UserId(ret'.telegram_id), ret'.device_id) :
                devices'[i].is_active]_vars

\* C10: verify returns a device exactly when a row with this device id is
\* owned by the user and active, and then it is that row.
C10_VerifyExact ==
    ret.op = "verify" =>
        LET u == UserId(ret.telegram_id)
            ok == {i \in DOMAIN devices : /\ u # 0
                                          /\ devices[i].user_id = u
                                          /\ devices[i].device_id = ret.device_id
                                          /\ devices[i].is_active}
        IN  /\ ret.res = "device" <=> ok # {}
            /\ ret.res = "device" => ret.row \in ok
            /\ ret.res # "device" => ret.row = 0 /\ ret.res \in {"None", "False"}

\* a known user is turned away from a device that is active for another user
C10_Witness ==
    /\ ret.op = "verify"
    /\ ret.res = "None"
    /\ UserId(ret.telegram_id) # 0
    /\ \E i \in DOMAIN devices : /\ devices[i].device_id = ret.device_id
                                 /\ devices[i].is_active
                                 /\ devices[i].user_id # UserId(ret.telegram_id)

\* C11: a verify that returns the device and a grant that returns a key set
\* the last_seen of that device row to the time of the call and change no
\* other device field; a verify or grant that fails changes no device row.
C11_LastSeenRefreshed ==
    [][ret'.op \in {"verify", "grant"} =>
          IF \/ ret'.op = "verify" /\ ret'.res = "device"
             \/ ret'.op = "grant" /\ ret'.res = "granted"
          THEN /\ ret'.row \in DOMAIN devices
               /\ devices' = [devices EXCEPT ![ret'.row].last_seen = now]
          ELSE devices' = devices]_vars

\* C12: revoke of a device recorded for the user returns True whether the
\* row is active or not and leaves it inactive; on a row already inactive
\* it changes nothing, so a second revoke leaves the state of the first.
C12_RevokeIdempotent ==
    [][(/\ ret'.op = "revoke"
        /\ Records(UserId(ret'.telegram_id), ret'.device_id) # {})
       => /\ ret'.res = "True"
          /\ ret'.row \in Records(UserId(ret'.telegram_id), ret'.device_id)
          /\ devices' = [devices EXCEPT ![ret'.row].is_active = FALSE]
          /\ ~devices[ret'.row].is_active =>
                UNCHANGED <<devices, contents, accesses, subscriptions, keyfiles,
                            keygen, ckgen, now, issued, revoked, sessions, disk>>]_vars

\* a revoke found the row already inactive and returned True
C12_Witness ==
    /\ ret.op = "revoke"
    /\ ret.res = "True"
    /\ ~ret.was_active
    /\ ~devices[ret.row].is_active
    /\ <<ret.telegram_id, ret.device_id>> \in revoked

\* C13: a grant asked by a known user for a content id with no row, or with
\* an inactive row, fails "Content not found", returns no key and appends
\* no access row, whatever the device.
C13_ContentNotFound ==
    [][(/\ ret'.op = "grant"
        /\ UserId(ret'.telegram_id) # 0
        /\ \/ ret'.content_id \notin DOMAIN contents
           \/ ~contents[ret'.content_id].is_active)
       => /\ ret'.res = "Content not found"
          /\ ret'.encrypted_key = None
          /\ accesses' = accesses]_vars

\* the content rows that upload_content made (the seeded rows carry key ids
\* of another form)
Ingested(c) == contents[c].encryption_key_id[1] = "sha256_16"

\* C14: in every state, uploads in progress or failed part-way included,
\* every active content row made by upload_content has its key file, and
\* no grant for such a row fails "Content key not found".
C14_KeyCustody ==
    /\ \A c \in DOMAIN contents :
          (contents[c].is_active /\ Ingested(c)) =>
              KeyFileExists(keyfiles, contents[c].encryption_key_id)
    /\ (ret.op = "grant" /\ ret.res = "Content key not found") =>
          ~Ingested(ret.content_id)

\* C15: when the tag of the encrypted file does not verify, decrypt_file
\* fails with InvalidTag and the output location holds no decrypted chunk.
C15_TamperRejected ==
    ret.op = "decrypt_file" =>
        LET f == disk["file.encrypted"]
            encrypted_data == SubSeq(f, 2, Len(f) - 1)
        IN  f[Len(f)] # <<"tag", ret.content_key, f[1][2], encrypted_data>> =>
                /\ ret.res = "InvalidTag"
                /\ disk["out"] = <<>>

Items(body) == {body[i] : i \in DOMAIN body}

C18_AccessLogAppendOnly ==
    [][/\ Len(accesses') >= Len(accesses)
       /\ \A e \in DOMAIN accesses : accesses'[e] = accesses[e]]_vars

\* the log holds a grant of each time of the clock, and a revoke has run
\* since
C18_Witness ==
    /\ Len(accesses) = 2
    /\ accesses[1].access_date = 0
    /\ accesses[2].access_date = 1
    /\ ret.op = "revoke"
    /\ ret.res = "True"

\* C19: no step removes a device row or changes whose it is or its device
\* id; revoke changes at most the active flag, to FALSE; and every access
\* row refers to a device row that is there, of the same user.
C19_DevicesNeverDeleted ==
    [][/\ \A i \in DOMAIN devices :
             /\ i \in DOMAIN devices'
             /\ devices'[i].user_id = devices[i].user_id
             /\ devices'[i].device_id = devices[i].device_id
       /\ ret'.op = "revoke" =>
             \A i \in DOMAIN devices :
                \/ devices'[i] = devices[i]
                \/ devices'[i] = [devices[i] EXCEPT !.is_active = FALSE]
       /\ \A e \in DOMAIN accesses' :
             /\ accesses'[e].device_id \in DOMAIN devices'
             /\ devices'[accesses'[e].device_id].user_id = accesses'[e].user_id]_vars

\* a device that was granted a key has been revoked: its row is there,
\* inactive, and the access row refers to it
C19_Witness ==
    /\ ret.op = "revoke"
    /\ ret.res = "True"
    /\ ret.was_active
    /\ ret.row \in DOMAIN devices
    /\ ~devices[ret.row].is_active
    /\ \E e \in DOMAIN accesses : accesses[e].device_id = ret.row

\* C20: what a successful grant returns unwraps, with the private key of
\* the device row of this user and device id that is active, and with no
\* other private key, to the key kept in keys/ under the key id of the
\* content; the answer holds no private key and not the raw key.
C20_WrappedKeyOfCustody ==
    (ret.op = "grant" /\ ret.res = "granted") =>
        LET kid == contents[ret.content_id].encryption_key_id
            custody == {f[2] : f \in {g \in keyfiles : g[1] = kid}}
            device == devices[ret.row]
        IN  /\ ret.row \in DOMAIN devices
            /\ device.user_id = UserId(ret.telegram_id)
            /\ device.device_id = ret.device_id
            /\ device.is_active
            /\ custody # {}
            /\ \A k \in 1..keygen :
                  LET content_key == decrypt_key_with_device(ret.encrypted_key,
                                                             <<"private", k>>)
                  IN  IF device.public_key = <<"public", k>>
                      THEN content_key \in custody
                      ELSE content_key \notin custody
            /\ ret.private_key = None
            /\ ret.encrypted_key \notin custody
            /\ ret.encrypted_key[2] \notin custody

\* the second user's device got the key of the uploaded content, wrapped
\* under its own public key, while the first user's device is registered
C20_Witness ==
    /\ ret.op = "grant"
    /\ ret.res = "granted"
    /\ Len(devices) = 2
    /\ ret.row = 2
    /\ devices[1].is_active
    /\ devices[2].public_key = <<"public", 2>>
    /\ ret.encrypted_key # None

\* C21: each step of the scenario gives the stated outcome in the states
\* the scenario meets it in: a register of a new fingerprint succeeds with
\* a device id and a private key when the class is free and fails with the
\* quota error when it is taken; a grant for an active device and a content
\* with its key returns a wrapped key; a grant for a revoked device fails
\* "Device not authorized".
C21_ScenarioOutcomes ==
    [][LET u == UserId(ret'.telegram_id)
       IN  /\ (/\ ret'.op = "register"
               /\ u # 0
               /\ Records(u, ret'.device_id) = {}) =>
                 IF ActiveOfClass(u, ret'.device_type) = {}
                 THEN /\ ret'.res = "created"
                      /\ ret'.http = 200
                      /\ ret'.private_key # None
                      /\ Len(devices') = Len(devices) + 1
                      /\ devices'[ret'.row].device_id = ret'.device_id
                      /\ devices'[ret'.row].device_type = ret'.device_type
                      /\ devices'[ret'.row].is_active
                 ELSE /\ ret'.res = "Maximum devices already registered"
                      /\ ret'.private_key = None
                      /\ devices' = devices
           /\ ret'.op = "grant" =>
                 IF /\ \E i \in Records(u, ret'.device_id) : devices[i].is_active
                    /\ ret'.content_id \in DOMAIN contents
                    /\ contents[ret'.content_id].is_active
                    /\ \E f \in keyfiles :
                          f[1] = contents[ret'.content_id].encryption_key_id
                 THEN ret'.res = "granted" /\ ret'.encrypted_key # None
                 ELSE ret'.res # "granted" /\ ret'.encrypted_key = None
           /\ (/\ ret'.op = "grant"
               /\ <<ret'.telegram_id, ret'.device_id>> \in revoked) =>
                 ret'.res = "Device not authorized"]_vars

\* the end of the scenario: the mobile device, first registered and served
\* the key of the uploaded pdf, is revoked and its grant has been refused,
\* while the laptop registered after it is active
C21_Witness ==
    /\ Len(devices) = 2
    /\ devices[1].device_type = "mobile" /\ ~devices[1].is_active
    /\ devices[2].device_type = "laptop" /\ devices[2].is_active
    /\ devices[1].device_id # devices[2].device_id
    /\ keygen = 2
    /\ Len(contents) = 2 /\ contents[2].content_type = "pdf"
    /\ accesses = << [user_id |-> 1, content_id |-> 2, device_id |-> 1,
                      access_type |-> "download", access_date |-> 0] >>
    /\ ret.op = "grant"
    /\ ret.telegram_id = 101
    /\ ret.content_id = 2
    /\ ret.device_id = devices[1].device_id
    /\ ret.res = "Device not authorized"
    /\ <<101, devices[1].device_id>> \in revoked

\* C22: a grant asked by a known user reports the first check that fails
\* in the order content, device, key custody: "Content not found" when the
\* content has no active row, whether or not the device is authorized,
\* then "Device not authorized", then "Content key not found".
C22_CheckOrder ==
    [][(ret'.op = "grant" /\ UserId(ret'.telegram_id) # 0) =>
          LET u == UserId(ret'.telegram_id)
              content_ok == /\ ret'.content_id \in DOMAIN contents
                            /\ contents[ret'.content_id].is_active
              device_ok == \E i \in Records(u, ret'.device_id) : devices[i].is_active
              key_ok == \E f \in keyfiles :
                           f[1] = contents[ret'.content_id].encryption_key_id
          IN  IF ~content_ok THEN ret'.res = "Content not found"
              ELSE IF ~device_ok THEN ret'.res = "Device not authorized"
              ELSE IF ~key_ok THEN ret'.res = "Content key not found"
              ELSE ret'.res \in {"granted", "crypto error"}]_vars

\* C23: the access row that a successful grant appends carries the kind of
\* access the caller was after, download, stream or view.
C23_AccessKind ==
    [][(ret'.op = "grant" /\ ret'.res = "granted") =>
          /\ Len(accesses') = Len(accesses) + 1
          /\ accesses'[Len(accesses')].access_type = ret'.access_type]_vars

\* C27: when a grant and a revoke of its device overlap, no access row is
\* committed for a device row that is inactive at the commit, and no
\* wrapped key is returned for one.
C27_NoGrantAfterRevoke ==
    [][/\ Len(accesses') > Len(accesses) =>
             devices[accesses'[Len(accesses')].device_id].is_active
       /\ (ret'.op = "grant" /\ ret'.res = "granted") =>
             devices[ret'.row].is_active]_vars

\* C24: every device record's class is mobile or laptop; register never
\* creates or activates a device of a class outside this set.
C24_ClosedClasses ==
    \A i \in DOMAIN devices : devices[i].device_type \in DeviceTypes

\* C25: when encrypt_file fails part-way, nothing partial is left at the
\* output location (it is empty or holds a whole ciphertext, closed by its
\* tag), and the upload adds no content row and no key file.
C25_EncryptAtomic ==
    [][(ret'.op = "upload" /\ ret'.res = "IOError") =>
          /\ LET f == disk'["file.encrypted"]
             IN  f = <<>> \/ f[Len(f)][1] = "tag"
          /\ contents' = contents
          /\ keyfiles' = keyfiles]_vars

\* C26: for a content row that is inactive, the download, the file and the
\* stream endpoint each answer with an error, whatever the device.
C26_InactiveNotDelivered ==
    [][(/\ ret'.op \in {"grant", "file", "stream"}
        /\ ret'.content_id \in DOMAIN contents
        /\ ~contents[ret'.content_id].is_active) =>
          ret'.res \notin {"granted", "send_file", "stream_url"}]_vars

\* C28: once the active device D of a class is revoked, a register of the
\* same user with a new fingerprint and that class creates a device; and
\* while a device of the class is active, a register with D's fingerprint
\* and that class is refused by the limit and D stays inactive.
C28_RevokeFreesSlot ==
    [][ret'.op = "register" /\ UserId(ret'.telegram_id) # 0 =>
        LET u == UserId(ret'.telegram_id)
            class == ret'.device_type
        IN  /\ (/\ \E D \in DOMAIN devices :
                      /\ devices[D].user_id = u
                      /\ ~devices[D].is_active
                      /\ devices[D].device_type = class
                      /\ <<ret'.telegram_id, devices[D].device_id>> \in revoked
                /\ ActiveOfClass(u, class) = {}
                /\ Records(u, ret'.device_id) = {}) =>
                   /\ ret'.res = "created"
                   /\ Len(devices') = Len(devices) + 1
                   /\ devices'[Len(devices')].is_active
                   /\ devices'[Len(devices')].device_type = class
                   /\ devices'[Len(devices')].device_id = ret'.device_id
            /\ (/\ \E D \in Records(u, ret'.device_id) :
                      ~devices[D].is_active /\ devices[D].device_type = class
                /\ ActiveOfClass(u, class) # {}) =>
                   /\ ret'.res = "Maximum devices already registered"
                   /\ devices' = devices]_vars

\* D was revoked, a later device of its class is active, and the register
\* with D's fingerprint and class was just refused
C28_Witness ==
    /\ ret.op = "register"
    /\ ret.res = "Maximum devices already registered"
    /\ <<ret.telegram_id, ret.device_id>> \in revoked
    /\ \E D \in Records(UserId(ret.telegram_id), ret.device_id) :
          /\ ~devices[D].is_active
          /\ devices[D].device_type = ret.device_type
          /\ \E j \in ActiveOfClass(UserId(ret.telegram_id), ret.device_type) : j > D

\* C29: revoke(U, D) clears the active flag of the row of U with device id
\* D and changes nothing else: the rows of other users with the same device
\* id, the other rows of U, the contents and the access rows stay as they
\* are; for an unknown user or an unknown device it returns False and
\* changes nothing.
C29_RevokeFrame ==
    [][ret'.op = "revoke" =>
        LET u == UserId(ret'.telegram_id)
            hit == Records(u, ret'.device_id)
        IN  /\ contents' = contents
            /\ accesses' = accesses
            /\ subscriptions' = subscriptions
            /\ keyfiles' = keyfiles
            /\ IF u = 0 \/ hit = {}
               THEN ret'.res = "False" /\ devices' = devices
               ELSE /\ ret'.res = "True"
                    /\ \E D \in hit :
                          devices' = [devices EXCEPT ![D].is_active = FALSE]]_vars

\* a revoke took an active device away while another user has an active
\* row with the same device id, the user has another active device, and an
\* uploaded content and an access row exist
C29_Witness ==
    /\ ret.op = "revoke" /\ ret.res = "True" /\ ret.was_active
    /\ ~devices[ret.row].is_active
    /\ \E i \in DOMAIN devices : /\ devices[i].user_id # devices[ret.row].user_id
                                 /\ devices[i].device_id = ret.device_id
                                 /\ devices[i].is_active
    /\ \E i \in DOMAIN devices : /\ devices[i].user_id = devices[ret.row].user_id
                                 /\ i # ret.row
                                 /\ devices[i].is_active
    /\ Len(contents) > 1
    /\ accesses # <<>>

\* C30: however often the webhook of one successful payment is delivered,
\* the user has at most one subscription with that payment id.
C30_OneSubscriptionPerPayment ==
    \A i, j \in DOMAIN subscriptions :
        (/\ subscriptions[i].user_id = subscriptions[j].user_id
         /\ subscriptions[i].payment_id = subscriptions[j].payment_id) => i = j

====
